---- MODULE Spec2Model ----
(***************************************************************************)
(* Model of mantis_xray/file_plugins/__init__.py: plugin discovery, the    *)
(* filter tables, identify, GetFileStructure, load (with stitching) and    *)
(* the two grid resamplers.                                                *)
(*                                                                         *)
(* Strings are sequences of tokens (one-character tokens wherever the code *)
(* looks inside a string), string concatenation is \o.  The program is     *)
(* single threaded and synchronous, so every call is one action; what a    *)
(* call did to its collaborators is recorded in trace.                     *)
(***************************************************************************)
EXTENDS Integers, Sequences, FiniteSets, TLC

VARIABLES candidates, plugins, tables, pc, args, stack_object, ret, trace

vars == <<candidates, plugins, tables, pc, args, stack_object, ret, trace>>

(***************************************************************************)
(* Bounds of the model.                                                    *)
(***************************************************************************)
MaxPlugins == 3
MaxCandidates == 3
MaxSel == 3

(***************************************************************************)
(* Helpers on sequences.                                                   *)
(***************************************************************************)
Range(s) == {s[k] : k \in 1..Len(s)}

SeqsUpTo(S, n) == UNION {[1..k -> S] : k \in 0..n}

SetMin(S) == CHOOSE m \in S : \A o \in S : m <= o

SetMax(S) == CHOOSE m \in S : \A o \in S : m >= o

(***************************************************************************)
(* Values a call hands back: None, a plugin of the registry (by position), *)
(* a structure, or an exception that leaves the call.                      *)
(***************************************************************************)
None == [kind |-> "None", index |-> 0, exc |-> ""]

ThePlugin(i) == [kind |-> "plugin", index |-> i, exc |-> ""]

Raised(e) == [kind |-> "raise", index |-> 0, exc |-> e]

Structure(i) == [kind |-> "FileInfo", index |-> i, exc |-> ""]

Returned(out) == [kind |-> "cube", index |-> 0, exc |-> "", out |-> out]

(***************************************************************************)
(* The module's two closed lists.                                          *)
(***************************************************************************)
actions == <<"read", "write">>

data_types == <<"spectrum", "image", "stack", "results">>

(***************************************************************************)
(* File names, extension patterns and os.path.splitext.                    *)
(***************************************************************************)
PatH == <<"*", ".", "h">>

PatT == <<"*", ".", "t">>

PatNone == <<"*">>

Filenames ==
    { <<"a", ".", "h">>,
      <<"a", ".", "t">>,
      <<"a", ".", "x">>,
      <<"a">>,
      <<".", "h">>,
      <<"d", ".", "h", "/", "a">>,
      <<"a", ".", "t", ".", "h">> }

\* str.rfind: the last position of token c in p, 0 when there is none
rfind(p, c) ==
    LET S == {k \in 1..Len(p) : p[k] = c}
    IN  IF S = {} THEN 0 ELSE SetMax(S)

\* os.path.splitext(filename)[1]: from the last dot of the last path
\* component on, unless only dots precede it in that component
splitext(p) ==
    LET sepIndex == rfind(p, "/")
        dotIndex == rfind(p, ".")
    IN  IF dotIndex > sepIndex
           /\ \E k \in (sepIndex + 1)..(dotIndex - 1) : p[k] # "."
        THEN SubSeq(p, dotIndex, Len(p))
        ELSE <<>>

(***************************************************************************)
(* A plugin module as the core sees it.  understands is the set of file    *)
(* contents for which the plugin's own identify probe answers True.        *)
(***************************************************************************)
Formats == {"f1", "f2"}

Plugin(t, e, rt, wt, u) ==
    [title |-> t, extension |-> e, read_types |-> rt, write_types |-> wt,
     understands |-> u]

\* P.identify(filename): the plugin's content probe
Probe(P, file) == file.format \in P.understands

(***************************************************************************)
(* identify(filename)                                                      *)
(***************************************************************************)
\* '*'+ext in P.extension
ExtensionListed(P, ext) == (<<"*">> \o ext) \in Range(P.extension)

\* variant: every provider starts ineligible
InitFlagFalse(n) == [k \in 1..n |-> FALSE]

\* flag = [True]*len(plugins)
InitFlag(n) == [k \in 1..n |-> TRUE]

\* variant: the loop stops at the first probe that returns False
BreakOnProbeFalse(flag, i) == "break"

\* what the loop does when P.identify returned False
OnProbeFalse(flag, i) == IF flag[i] = TRUE THEN "continue" ELSE "break"

ProbeEvent(i, result, held, branch) ==
    [call |-> "identify", plugin |-> i, result |-> result, flag |-> held,
     branch |-> branch]

RECURSIVE IdentifyLoop(_, _, _, _, _)
\* the for loop from position i on, with the probes made so far in log
IdentifyLoop(reg, file, i, flag, log) ==
    IF i > Len(reg)
    THEN [ret |-> None, log |-> log, flag |-> flag]
    ELSE IF ExtensionListed(reg[i], splitext(file.name))
         THEN IF Probe(reg[i], file)
              THEN [ret |-> ThePlugin(i),
                    log |-> Append(log, ProbeEvent(i, TRUE, flag[i], "return")),
                    flag |-> flag]
              ELSE IF OnProbeFalse(flag, i) = "continue"
                   THEN IdentifyLoop(reg, file, i + 1,
                            [flag EXCEPT ![i] = FALSE],
                            Append(log, ProbeEvent(i, FALSE, flag[i], "continue")))
                   ELSE [ret |-> None,
                         log |-> Append(log, ProbeEvent(i, FALSE, flag[i], "break")),
                         flag |-> flag]
         ELSE IdentifyLoop(reg, file, i + 1, flag, log)

\* variant of the docstring: after the listing providers, probe the others
RECURSIVE ProbeOthers(_, _, _, _)
ProbeOthers(reg, file, i, log) ==
    IF i > Len(reg)
    THEN [ret |-> None, log |-> log, flag |-> InitFlag(Len(reg))]
    ELSE IF ExtensionListed(reg[i], splitext(file.name))
         THEN ProbeOthers(reg, file, i + 1, log)
         ELSE IF Probe(reg[i], file)
              THEN [ret |-> ThePlugin(i),
                    log |-> Append(log, ProbeEvent(i, TRUE, TRUE, "return")),
                    flag |-> InitFlag(Len(reg))]
              ELSE ProbeOthers(reg, file, i + 1,
                       Append(log, ProbeEvent(i, FALSE, TRUE, "continue")))

\* variant of the docstring: identify followed by the pass over the others
identify_with_fallback(reg, file) ==
    LET first == IdentifyLoop(reg, file, 1, InitFlag(Len(reg)), <<>>)
    IN  IF first.ret # None THEN first
        ELSE ProbeOthers(reg, file, 1, first.log)

identify(reg, file) == IdentifyLoop(reg, file, 1, InitFlag(Len(reg)), <<>>)

(***************************************************************************)
(* Discovery: the loop over pkgutil.iter_modules at import time.  A        *)
(* candidate either executes ("ok"), fails with ImportError, or fails with *)
(* another exception; module is what it defines when it executes.          *)
(***************************************************************************)
verbose == TRUE

Candidate(l, r, t, m) ==
    [loads |-> l, has_read |-> r, has_title |-> t, module |-> m]

\* variant: every module that loads is registered
RegistersAlways(c) == TRUE

\* 'read' in dir(module)
Registers(c) == c.has_read

\* except ImportError as e
Caught(e) == e = "ImportError"

LoadEvent(i, outcome) == [call |-> "load", candidate |-> i, outcome |-> outcome]

RECURSIVE DiscoverLoop(_, _, _, _)
\* the discovery loop from candidate i on, with registry reg so far
DiscoverLoop(cands, i, reg, log) ==
    IF i > Len(cands)
    THEN [plugins |-> reg, log |-> log, outcome |-> None]
    ELSE LET c == cands[i] IN
         IF c.loads # "ok"
         THEN IF Caught(c.loads)
              THEN DiscoverLoop(cands, i + 1, reg,
                                Append(log, LoadEvent(i, "prerequisites")))
              ELSE [plugins |-> reg, log |-> Append(log, LoadEvent(i, "raise")),
                    outcome |-> Raised(c.loads)]
         ELSE IF Registers(c)
              THEN IF verbose /\ ~c.has_title
                   THEN [plugins |-> Append(reg, c.module),
                         log |-> Append(log, LoadEvent(i, "raise")),
                         outcome |-> Raised("AttributeError")]
                   ELSE DiscoverLoop(cands, i + 1, Append(reg, c.module),
                                     Append(log, LoadEvent(i, "Success")))
              ELSE DiscoverLoop(cands, i + 1, reg,
                                Append(log, LoadEvent(i, "skipping")))

(***************************************************************************)
(* The tables of supported file types, per action and data type.           *)
(***************************************************************************)
RECURSIVE Join(_, _)
\* sep.join(strs)
Join(strs, sep) ==
    IF strs = <<>> THEN <<>>
    ELSE IF Len(strs) = 1 THEN strs[1]
    ELSE strs[1] \o sep \o Join(Tail(strs), sep)

\* getattr(P, action+'_types')
TypesOf(P, action) == IF action = "read" THEN P.read_types ELSE P.write_types

\* P.title+' ('+' '.join(P.extension)+')'
FilterEntry(P) == P.title \o <<" (">> \o Join(P.extension, <<" ">>) \o <<")">>

\* variant: extensions are appended without the membership test
AddExtensionUnchecked(filters, ext) == Append(filters, ext)

\* if ext not in supported_filters[action][data_type]: append
AddExtension(filters, ext) ==
    IF ext \in Range(filters) THEN filters ELSE Append(filters, ext)

RECURSIVE AddExtensions(_, _)
AddExtensions(filters, exts) ==
    IF exts = <<>> THEN filters
    ELSE AddExtensions(AddExtension(filters, Head(exts)), Tail(exts))

EmptyCell == [filters |-> <<>>, plugins |-> <<>>, list |-> <<>>]

RECURSIVE CellAfter(_, _, _, _)
\* the three tables' entries for (action, data_type) after plugins 1..i
CellAfter(reg, i, action, data_type) ==
    IF i = 0 THEN EmptyCell
    ELSE LET before == CellAfter(reg, i - 1, action, data_type)
             P == reg[i]
         IN  IF data_type \in Range(TypesOf(P, action))
             THEN [filters |-> AddExtensions(before.filters, P.extension),
                   plugins |-> Append(before.plugins, i),
                   list |-> Append(before.list, FilterEntry(P))]
             ELSE before

\* the second loop: only filter_list['read'] gets the aggregate entry in
\* front and the catch-all entry behind
Wrap(action, cell) ==
    IF action = "read"
    THEN <<<<"Supported Formats", " (">> \o Join(cell.filters, <<" ">>) \o <<")">>>>
             \o cell.list \o <<<<"All files (*.*)">>>>
    ELSE cell.list

BuildTables(reg) ==
    [supported_filters |->
        [a \in Range(actions) |-> [t \in Range(data_types) |->
            CellAfter(reg, Len(reg), a, t).filters]],
     supported_plugins |->
        [a \in Range(actions) |-> [t \in Range(data_types) |->
            CellAfter(reg, Len(reg), a, t).plugins]],
     filter_list |->
        [a \in Range(actions) |-> [t \in Range(data_types) |->
            Wrap(a, CellAfter(reg, Len(reg), a, t))]]]

(***************************************************************************)
(* Arrays.  A cube (row, column, slice) is a sequence of rows, a row a     *)
(* sequence of columns, a column entry the sequence of its slice values.   *)
(* A coordinate array carries its number of dimensions: the data of a      *)
(* 1-dimensional one is a sequence of numbers, of a 2-dimensional one a    *)
(* sequence of rows with one number per slice.                             *)
(***************************************************************************)
Arr1(d) == [ndim |-> 1, data |-> d]

Arr2(d) == [ndim |-> 2, data |-> d]

\* absdata.shape
Shape(cube) ==
    IF cube = <<>> THEN <<0, 0, 0>>
    ELSE <<Len(cube), Len(cube[1]), Len(cube[1][1])>>

\* numpy.arange(n)
arange(n) == Arr1([k \in 1..n |-> k - 1])

\* absdata[:, :, i].ravel(): row after row
Ravel(cube, i) ==
    [n \in 1..(Shape(cube)[1] * Shape(cube)[2]) |->
        cube[((n - 1) \div Shape(cube)[2]) + 1][((n - 1) % Shape(cube)[2]) + 1][i]]

\* absdata[:, :, i].T.reshape(-1): column after column
RavelT(cube, i) ==
    [n \in 1..(Shape(cube)[1] * Shape(cube)[2]) |->
        cube[((n - 1) % Shape(cube)[1]) + 1][((n - 1) \div Shape(cube)[1]) + 1][i]]

\* a[:, i] of a 2-dimensional coordinate array (i counts from 1 here)
Column(a, i) == [r \in 1..Len(a.data) |-> a.data[r][i]]

\* number of columns of a 2-dimensional coordinate array
NCols(a) == IF a.data = <<>> THEN 0 ELSE Len(a.data[1])

\* numpy.linspace(lo, hi, n), kept as its three arguments
linspace(lo, hi, n) == [lo |-> lo, hi |-> hi, n |-> n]

\* numpy.meshgrid(x, y) of two linspaces: the target grid
meshgrid(x, y) == [x |-> x, y |-> y]

\* scipy.interpolate.griddata, kept as the call that was made
griddata(points, values, xi, method) ==
    [points |-> points, values |-> values, xi |-> xi, method |-> method]

NoCube == [shape |-> <<0, 0, 0>>, slices |-> <<>>]

(***************************************************************************)
(* The grid resamplers.  Each returns exc = "" and the resampled cube out  *)
(* (per slice the griddata call that produced it), or the exception that   *)
(* leaves the function.                                                    *)
(***************************************************************************)
Resampled(cube, slices) ==
    [exc |-> "", out |-> [shape |-> Shape(cube), slices |-> slices]]

Failed(e) == [exc |-> e, out |-> NoCube]

\* x_dist.min(), x_dist.max() or x_dist[:, 0].min(), x_dist[:, 0].max():
\* the values the extent is taken over
ExtentValues(a) == IF a.ndim = 1 THEN Range(a.data) ELSE Range(Column(a, 1))

\* the exception of the extent computation, "" when there is none
ExtentError(a) ==
    IF a.ndim = 2 /\ a.data # <<>> /\ NCols(a) = 0 THEN "IndexError"
    ELSE IF ExtentValues(a) = {} THEN "ValueError:min of empty array"
    ELSE ""

\* the shared grid xx, yy of lines 170-172 (128-130)
SharedGrid(cube, x_dist, y_dist) ==
    meshgrid(linspace(SetMin(ExtentValues(x_dist)), SetMax(ExtentValues(x_dist)),
                      Shape(cube)[1]),
             linspace(SetMin(ExtentValues(y_dist)), SetMax(ExtentValues(y_dist)),
                      Shape(cube)[2]))

\* the grid xx_new, yy_new of slice i in the per-slice branch
SliceGrid(cube, x_dist, y_dist, i) ==
    meshgrid(linspace(SetMin(Range(Column(x_dist, i))),
                      SetMax(Range(Column(x_dist, i))), Shape(cube)[1]),
             linspace(SetMin(Range(Column(y_dist, i))),
                      SetMax(Range(Column(y_dist, i))), Shape(cube)[2]))

\* what stops slice i of the per-slice branch before its griddata call:
\* x_dist[:, i] beyond the columns, or x_min_i / y_min_i never assigned
SliceError(x_dist, y_dist, i) ==
    IF x_dist.ndim = 2 /\ i > NCols(x_dist) THEN "IndexError"
    ELSE IF y_dist.ndim = 2 /\ i > NCols(y_dist) THEN "IndexError"
    ELSE IF x_dist.ndim # 2 THEN "UnboundLocalError:x_min_i"
    ELSE IF y_dist.ndim # 2 THEN "UnboundLocalError:y_min_i"
    ELSE ""

\* original_points is assigned only at line 180: both arrays 1-dimensional
\* and flat
OriginalPointsBound(x_dist, y_dist, flat) ==
    x_dist.ndim = 1 /\ y_dist.ndim = 1 /\ flat

\* what stops slice i of the per-slice branch of interpolate_absdata_flat
FlatSliceError(x_dist, y_dist, flat, i) ==
    IF SliceError(x_dist, y_dist, i) # "" THEN SliceError(x_dist, y_dist, i)
    ELSE IF ~OriginalPointsBound(x_dist, y_dist, flat)
    THEN "UnboundLocalError:original_points"
    ELSE ""

\* interpolate_absdata_flat(absdata, x_dist, y_dist, flat)
interpolate_absdata_flat(absdata, x_dist, y_dist, flat) ==
    IF ExtentError(x_dist) # "" THEN Failed(ExtentError(x_dist))
    ELSE IF ExtentError(y_dist) # "" THEN Failed(ExtentError(y_dist))
    ELSE IF x_dist.ndim = 1 /\ y_dist.ndim = 1
    THEN IF flat /\ (Len(x_dist.data) # Shape(absdata)[1] * Shape(absdata)[2]
                     \/ Len(y_dist.data) # Shape(absdata)[1] * Shape(absdata)[2])
         THEN Failed("ValueError:reshape")
         ELSE IF Shape(absdata)[3] > 0
                 /\ (Len(x_dist.data) # Len(y_dist.data)
                     \/ Len(x_dist.data) # Shape(absdata)[1] * Shape(absdata)[2])
         THEN Failed("ValueError:griddata")
         ELSE Resampled(absdata,
                  [i \in 1..Shape(absdata)[3] |->
                      griddata(<<x_dist.data, y_dist.data>>, RavelT(absdata, i),
                               SharedGrid(absdata, x_dist, y_dist), "nearest")])
    ELSE LET failing == {i \in 1..Shape(absdata)[3] :
                            FlatSliceError(x_dist, y_dist, flat, i) # ""}
         IN  IF failing # {}
             THEN Failed(FlatSliceError(x_dist, y_dist, flat, SetMin(failing)))
             ELSE Resampled(absdata,
                      [i \in 1..Shape(absdata)[3] |->
                          griddata("original_points", Ravel(absdata, i),
                                   SliceGrid(absdata, x_dist, y_dist, i), "cubic")])

\* interpolate_absdata(absdata, x_dist, y_dist)
interpolate_absdata(absdata, x_dist, y_dist) ==
    IF ExtentError(x_dist) # "" THEN Failed(ExtentError(x_dist))
    ELSE IF ExtentError(y_dist) # "" THEN Failed(ExtentError(y_dist))
    ELSE IF x_dist.ndim = 1 /\ y_dist.ndim = 1
    THEN IF Shape(absdata)[3] > 0
            /\ Len(x_dist.data) * Len(y_dist.data)
                  # Shape(absdata)[1] * Shape(absdata)[2]
         THEN Failed("ValueError:reshape")
         ELSE Resampled(absdata,
                  [i \in 1..Shape(absdata)[3] |->
                      griddata(SharedGrid(absdata, x_dist, y_dist), Ravel(absdata, i),
                               <<x_dist.data, y_dist.data>>, "cubic")])
    ELSE IF Shape(absdata)[3] = 0 THEN Resampled(absdata, <<>>)
    ELSE IF \E i \in 1..Shape(absdata)[3] : SliceError(x_dist, y_dist, i) # ""
    THEN Failed(SliceError(x_dist, y_dist,
                    SetMin({i \in 1..Shape(absdata)[3] :
                                SliceError(x_dist, y_dist, i) # ""})))
    ELSE Resampled(absdata,
             [i \in 1..Shape(absdata)[3] |->
                 griddata(SharedGrid(absdata, x_dist, y_dist), Ravel(absdata, i),
                          SliceGrid(absdata, x_dist, y_dist, i), "cubic")])

(***************************************************************************)
(* The state before any call.                                              *)
(***************************************************************************)
NoTables == [supported_filters |-> <<>>, supported_plugins |-> <<>>,
             filter_list |-> <<>>]

NoArgs == [op |-> "none"]


\* data_stack.data(data_struct): a data object that holds nothing yet
NoStackObject == [absdata |-> <<>>, x_dist |-> Arr1(<<>>), y_dist |-> Arr1(<<>>),
            n_cols |-> 0, n_rows |-> 0,
            x_dist_instr |-> Arr1(<<>>), y_dist_instr |-> Arr1(<<>>),
            absdata_interpolated |-> NoCube]

(***************************************************************************)
(* A plugin's read, as the core relies on it: it fills the target's cube   *)
(* and coordinate arrays, or raises.  content says what the file holds:    *)
(* the shape of the cube of each sub-selection, the number of slices, the  *)
(* kind of instrument coordinates and whether the file can be read.        *)
(***************************************************************************)
Sample(k, r, c, e) == ((k * 8 + r) * 8 + c) * 8 + e

\* the cube the file holds for the k-th sub-selection (0: no selection)
RegionCube(content, k) ==
    LET shape == content.shapes[IF k = 0 THEN 1 ELSE k]
    IN  [r \in 1..shape[1] |-> [c \in 1..shape[2] |->
            [e \in 1..content.slices |-> Sample(k, r, c, e)]]]

\* rows and columns of everything the file holds for the selection
RECURSIVE RowsUpTo(_, _)
RowsUpTo(content, k) ==
    IF k = 0 THEN 0 ELSE content.shapes[k][1] + RowsUpTo(content, k - 1)

TotalRows(content) == RowsUpTo(content, Len(content.shapes))

WidestCols(content) == SetMax({content.shapes[k][2] : k \in 1..Len(content.shapes)})

\* the instrument coordinates the plugin stores with a cube of the shape
InstrCoords(content, shape) ==
    IF content.instr = "flat" THEN Arr1([n \in 1..(shape[1] * shape[2]) |-> n])
    ELSE IF content.instr = "flat_all"
    THEN Arr1([n \in 1..(TotalRows(content) * WidestCols(content)) |-> n])
    ELSE Arr2([r \in 1..shape[1] |-> [i \in 1..content.slices |-> r + 4 * i]])

\* plugin.read(filename, target, selection, json)
ProviderRead(content, target, k) ==
    LET cube == RegionCube(content, k)
    IN  [target EXCEPT !.absdata = cube,
                       !.x_dist = arange(Shape(cube)[1]),
                       !.y_dist = arange(Shape(cube)[2]),
                       !.n_cols = Shape(cube)[1],
                       !.n_rows = Shape(cube)[2],
                       !.x_dist_instr = InstrCoords(content, Shape(cube)),
                       !.y_dist_instr = InstrCoords(content, Shape(cube))]

ReadEvent(p, target, k) ==
    [call |-> "read", plugin |-> p, target |-> target, selection |-> k]

(***************************************************************************)
(* load(filename, stack_object, plugin, selection, json)                   *)
(***************************************************************************)
\* variant: the test for a missing plugin never succeeds
NeverNone(p) == FALSE

\* plugin is None
IsNone(p) == p = None

\* numpy.pad(cube, ((0,0),(0,n),(0,0)), mode='constant', constant_values=0)
pad(cube, n) ==
    [r \in 1..Len(cube) |->
        cube[r] \o [c \in 1..n |-> [e \in 1..Shape(cube)[3] |-> 0]]]

\* numpy.vstack((a, b)): the rows of b under the rows of a; the arrays
\* must agree in every other dimension
vstack(a, b) ==
    IF Shape(a)[2] = Shape(b)[2] /\ Shape(a)[3] = Shape(b)[3]
    THEN [exc |-> "", cube |-> a \o b]
    ELSE [exc |-> "ValueError:vstack", cube |-> <<>>]

\* variant: the cubes are stacked as read, without padding
StitchUnpadded(full_stack, temp) == vstack(full_stack, temp)

\* lines 227-231: pad the narrower of the two, then stack
Stitch(full_stack, temp) ==
    IF Shape(full_stack)[2] > Shape(temp)[2]
    THEN vstack(full_stack, pad(temp, Shape(full_stack)[2] - Shape(temp)[2]))
    ELSE IF Shape(full_stack)[2] < Shape(temp)[2]
    THEN vstack(pad(full_stack, Shape(temp)[2] - Shape(full_stack)[2]), temp)
    ELSE vstack(full_stack, temp)

\* one pass of the loop body, lines 226-231, on the loop's state so far
StitchNext(p, content, s, before, merged) ==
    [exc |-> merged.exc,
     cube |-> IF merged.exc = "" THEN merged.cube ELSE before.cube,
     log |-> Append(before.log, ReadEvent(p, "temp_stack", s))]

RECURSIVE StitchLoop(_, _, _, _, _)
\* for s in selection[1:], from the k-th entry of the selection on; temp_stack
\* is the scratch object of line 223, read anew for every entry
StitchLoop(p, content, selection, k, before) ==
    IF k > Len(selection) \/ before.exc # "" THEN before
    ELSE StitchLoop(p, content, selection, k + 1,
             StitchNext(p, content, selection[k], before,
                 Stitch(before.cube,
                        ProviderRead(content, NoStackObject, selection[k]).absdata)))

\* lines 232-237: the merged cube and the re-indexed coordinates
Restack(first, all) ==
    IF all.exc # ""
    THEN [exc |-> all.exc, stack |-> first, log |-> all.log]
    ELSE [exc |-> "",
          stack |-> [first EXCEPT
                        !.absdata = all.cube,
                        !.x_dist = arange(Shape(all.cube)[1]),
                        !.y_dist = arange(Shape(all.cube)[2]),
                        !.n_cols = Shape(all.cube)[1],
                        !.n_rows = Shape(all.cube)[2]],
          log |-> all.log]

\* lines 222-231: the first read into stack_object, the others stitched on
ReadAll(p, content, selection, first) ==
    Restack(first,
            StitchLoop(p, content, selection, 2,
                [exc |-> "", cube |-> first.absdata,
                 log |-> <<ReadEvent(p, "stack_object", selection[1])>>]))

\* lines 216-237: the reads of the three paths and the stitching
Populate(p, content, stack, selection) ==
    IF ~selection.given
    THEN IF ~content.readable
         THEN [exc |-> "IOError", stack |-> stack,
               log |-> <<ReadEvent(p, "stack_object", 0)>>]
         ELSE [exc |-> "", stack |-> ProviderRead(content, stack, 0),
               log |-> <<ReadEvent(p, "stack_object", 0)>>]
    ELSE IF Len(selection.list) = 0
    THEN [exc |-> "IndexError", stack |-> stack, log |-> <<>>]
    ELSE IF ~content.readable
    THEN [exc |-> "IOError", stack |-> stack,
          log |-> <<ReadEvent(p, "stack_object", selection.list[1])>>]
    ELSE IF Len(selection.list) = 1
    THEN [exc |-> "", stack |-> ProviderRead(content, stack, selection.list[1]),
          log |-> <<ReadEvent(p, "stack_object", selection.list[1])>>]
    ELSE ReadAll(p, content, selection.list,
                 ProviderRead(content, stack, selection.list[1]))

ResampleEvent(stack) ==
    [call |-> "interpolate_absdata_flat", absdata |-> stack.absdata,
     x_dist |-> stack.x_dist_instr, y_dist |-> stack.y_dist_instr]

\* lines 239-240: keep the resampled cube and return
Store(log, stack, r) ==
    IF r.exc # ""
    THEN [stack |-> stack, ret |-> Raised(r.exc), log |-> log]
    ELSE [stack |-> [stack EXCEPT !.absdata_interpolated = r.out],
          ret |-> None, log |-> log]

\* line 238: resample the populated cube with the instrument coordinates
ResampleAndStore(log, got) ==
    IF got.exc # ""
    THEN [stack |-> got.stack, ret |-> Raised(got.exc), log |-> log \o got.log]
    ELSE Store(log \o got.log \o <<ResampleEvent(got.stack)>>, got.stack,
               interpolate_absdata_flat(got.stack.absdata, got.stack.x_dist_instr,
                                        got.stack.y_dist_instr, TRUE))

\* lines 212-240, with the plugin that was given or found
LoadWith(found, content, stack, selection) ==
    IF IsNone(found.ret)
    THEN [stack |-> stack, ret |-> None, log |-> found.log]
    ELSE ResampleAndStore(found.log,
             Populate(found.ret.index, content, stack, selection))

\* load: plugin is 0 for None, else the position of the plugin handed in
load(reg, file, content, stack, plugin, selection) ==
    LoadWith(IF plugin = 0 THEN identify(reg, file)
             ELSE [ret |-> ThePlugin(plugin), log |-> <<>>],
             content, stack, selection)

(***************************************************************************)
(* GetFileStructure(filename, plugin)                                      *)
(***************************************************************************)
GetFileStructure(reg, file, single, plugin) ==
    LET found == IF plugin = 0 THEN identify(reg, file)
                 ELSE [ret |-> ThePlugin(plugin), log |-> <<>>]
    IN  IF IsNone(found.ret)
        THEN [ret |-> None, log |-> found.log]
        ELSE [ret |-> IF single THEN None ELSE Structure(found.ret.index),
              log |-> Append(found.log,
                             [call |-> "GetFileStructure",
                              plugin |-> found.ret.index])]

(***************************************************************************)
(* Dispatch: the registry is as discovery left it, identify is called on   *)
(* one file.                                                               *)
(***************************************************************************)
ExtLists == {<<PatH>>, <<PatT, PatH>>, <<PatNone>>}

Understands == {{}, {"f1"}, {"f2"}}

IdentifyProviders ==
    {Plugin(<<"P">>, e, <<"stack">>, <<>>, u) : e \in ExtLists, u \in Understands}

Files == [name : Filenames, format : Formats]

InitIdentify ==
    /\ candidates = <<>>
    /\ plugins \in SeqsUpTo(IdentifyProviders, MaxPlugins)
    /\ tables = NoTables
    /\ pc = "ready"
    /\ args = NoArgs
    /\ stack_object = NoStackObject
    /\ ret = None
    /\ trace = <<>>

Identify ==
    /\ pc = "ready"
    /\ \E file \in Files :
         LET r == identify(plugins, file)
         IN  /\ args' = [op |-> "identify", file |-> file]
             /\ ret' = r.ret
             /\ trace' = r.log
    /\ pc' = "returned"
    /\ UNCHANGED <<candidates, plugins, tables, stack_object>>

NextIdentify == Identify

SpecIdentify == InitIdentify /\ [][NextIdentify]_vars

\* the file's extension pattern, '*'+ext
PatternOf(file) == <<"*">> \o splitext(file.name)

\* positions of the providers that list the extension of the file
Listing(file) ==
    {k \in 1..Len(plugins) : PatternOf(file) \in Range(plugins[k].extension)}

\* positions of the providers that list the extension and whose probe is true
Confirming(file) ==
    {k \in Listing(file) : file.format \in plugins[k].understands}

IdentifyReturned == pc = "returned" /\ args.op = "identify"

\* C1: when some provider lists the file's extension and probes true,
\* identify returns the earliest such provider in registration order,
\* however many listing providers before it probed false.
C1_EarliestConfirmingWins ==
    (IdentifyReturned /\ Confirming(args.file) # {})
        => ret = ThePlugin(SetMin(Confirming(args.file)))

\* C1 witness: the third provider is returned after two listing providers
\* before it probed false.
C1_Witness ==
    /\ IdentifyReturned
    /\ ret = ThePlugin(3)
    /\ Len(trace) = 3
    /\ trace[1].result = FALSE /\ trace[2].result = FALSE

C3_FallbackToAllProviders ==
    (/\ IdentifyReturned
     /\ Listing(args.file) = {}
     /\ \E k \in 1..Len(plugins) : args.file.format \in plugins[k].understands)
        => ret # None

\* the listing providers up to and including the first confirming one
ToFirstConfirming(file) ==
    IF Confirming(file) = {} THEN Listing(file)
    ELSE {k \in Listing(file) : k <= SetMin(Confirming(file))}

\* C10: in one identify call each provider is probed at most once (in
\* registration order), its flag is still true when its probe returns
\* false, the break branch is never taken, and the probed providers are
\* the listing ones up to and including the first that confirms.
C10_BreakBranchNeverTaken ==
    IdentifyReturned =>
        /\ \A k \in 1..Len(trace) :
              /\ trace[k].flag = TRUE
              /\ trace[k].branch # "break"
        /\ \A j, k \in 1..Len(trace) : j < k => trace[j].plugin < trace[k].plugin
        /\ {trace[k].plugin : k \in 1..Len(trace)} = ToFirstConfirming(args.file)

\* C10 witness: a call in which two probes returned false.
C10_Witness ==
    /\ IdentifyReturned
    /\ Cardinality({k \in 1..Len(trace) : trace[k].result = FALSE}) >= 2
    /\ ret = None

(***************************************************************************)
(* Import of the package: discovery, then the tables.                      *)
(***************************************************************************)
Titles == <<"P1", "P2", "P3", "P4", "P5">>

\* what a plugin module may declare: extension, read_types, write_types
ModuleKinds ==
    { <<<<PatH>>, <<"stack">>, <<"stack">>>>,
      <<<<PatH>>, <<"image", "stack">>, <<>>>>,
      <<<<PatH>>, <<>>, <<"stack">>>>,
      <<<<PatT, PatH>>, <<"stack">>, <<>>>>,
      <<<<PatT, PatH>>, <<"image", "stack">>, <<>>>>,
      <<<<PatT, PatH>>, <<>>, <<"image", "stack">>>> }

\* the candidates the plugin directory may hold at position i: plugins,
\* modules whose import fails, modules without read or without title
CandidatesAt(i) ==
    LET default == Plugin(<<Titles[i]>>, <<PatH>>, <<"stack">>, <<>>, {})
    IN  {Candidate("ok", TRUE, TRUE, Plugin(<<Titles[i]>>, k[1], k[2], k[3], {})) :
            k \in ModuleKinds}
        \cup {Candidate("ImportError", TRUE, TRUE, default),
              Candidate("SyntaxError", TRUE, TRUE, default),
              Candidate("ok", FALSE, TRUE, default),
              Candidate("ok", TRUE, FALSE, default)}

RECURSIVE Directories(_)
\* the plugin directories with n candidates
Directories(n) ==
    IF n = 0 THEN {<<>>}
    ELSE {Append(d, c) : d \in Directories(n - 1), c \in CandidatesAt(n)}

InitImport ==
    /\ candidates \in UNION {Directories(n) : n \in 0..MaxCandidates}
    /\ plugins = <<>>
    /\ tables = NoTables
    /\ pc = "import"
    /\ args = NoArgs
    /\ stack_object = NoStackObject
    /\ ret = None
    /\ trace = <<>>

Discover ==
    /\ pc = "import"
    /\ LET r == DiscoverLoop(candidates, 1, <<>>, <<>>)
       IN  /\ plugins' = r.plugins
           /\ trace' = r.log
           /\ ret' = r.outcome
           /\ pc' = IF r.outcome = None THEN "discovered" ELSE "aborted"
    /\ UNCHANGED <<candidates, tables, args, stack_object>>

Assemble ==
    /\ pc = "discovered"
    /\ tables' = BuildTables(plugins)
    /\ pc' = "ready"
    /\ UNCHANGED <<candidates, plugins, args, stack_object, ret, trace>>

NextImport == Discover \/ Assemble

SpecImport == InitImport /\ [][NextImport]_vars

\* the n-th smallest element of a set of numbers
Nth(I, n) == CHOOSE k \in I : Cardinality({j \in I : j < k}) = n - 1

\* the subsequence of s at the positions I
Pick(s, I) == [n \in 1..Cardinality(I) |-> s[Nth(I, n)]]

\* positions of the candidates that executed and define read
Valid == {k \in 1..Len(candidates) :
             candidates[k].loads = "ok" /\ candidates[k].has_read}

\* C4: discovery examines the candidates in scan order; after it the
\* registry is exactly the subsequence of candidates that loaded and have
\* read; a candidate without read is never registered; a candidate failing
\* with ImportError or lacking read never ends discovery, the candidates
\* after it are examined.
C4_RegistryIsValidSubsequence ==
    pc # "import" =>
        /\ \A k \in 1..Len(trace) : trace[k].candidate = k
        /\ \A k \in 1..Len(plugins) :
              \E j \in Valid : plugins[k] = candidates[j].module
        /\ \A k \in 1..Len(trace) :
              (candidates[k].loads = "ImportError" \/ ~candidates[k].has_read)
                  => /\ trace[k].outcome # "raise"
                     /\ (k < Len(candidates) => Len(trace) > k)
        /\ pc # "aborted" =>
              /\ Len(trace) = Len(candidates)
              /\ plugins = Pick([k \in 1..Len(candidates) |-> candidates[k].module],
                                Valid)

\* C4 witness: discovery finished over three candidates of which the first
\* failed with ImportError, the second has no read and the third is valid.
C4_Witness ==
    /\ pc = "discovered"
    /\ Len(candidates) = 3
    /\ candidates[1].loads = "ImportError"
    /\ ~candidates[2].has_read
    /\ Len(plugins) = 1 /\ plugins[1] = candidates[3].module

\* positions of the registered providers that handle data type t for action a
Qualifying(a, t) ==
    {k \in 1..Len(plugins) :
        t \in Range(IF a = "read" THEN plugins[k].read_types
                    ELSE plugins[k].write_types)}

\* the extension lists of the providers at positions I, one after another
RECURSIVE ExtensionsOf(_)
ExtensionsOf(I) ==
    IF I = {} THEN <<>>
    ELSE plugins[SetMin(I)].extension \o ExtensionsOf(I \ {SetMin(I)})

\* s without repetitions, each element where it first occurs
FirstSeen(s) == Pick(s, {k \in 1..Len(s) : \A j \in 1..(k - 1) : s[j] # s[k]})

\* the display string '<title> (<exts separated by blanks>)'
Shown(title, exts) == title \o <<" (">> \o Join(exts, <<" ">>) \o <<")">>

\* C9: per data type the read filter list is the aggregate entry over the
\* duplicate-free first-seen union of the reading providers' extensions,
\* then one entry per reading provider in registration order, then
\* 'All files (*.*)'; the write filter list is only the per-provider
\* entries of the writing providers.
C9_FilterLists ==
    pc = "ready" =>
        \A t \in Range(data_types) :
            LET R == Qualifying("read", t)
                W == Qualifying("write", t)
                L == tables.filter_list["read"][t]
                M == tables.filter_list["write"][t]
            IN  /\ Len(L) = Cardinality(R) + 2
                /\ L[1] = Shown(<<"Supported Formats">>, FirstSeen(ExtensionsOf(R)))
                /\ \A n \in 1..Cardinality(R) :
                      L[n + 1] = Shown(plugins[Nth(R, n)].title,
                                       plugins[Nth(R, n)].extension)
                /\ L[Len(L)] = <<"All files (*.*)">>
                /\ Len(M) = Cardinality(W)
                /\ \A n \in 1..Cardinality(W) :
                      M[n] = Shown(plugins[Nth(W, n)].title,
                                   plugins[Nth(W, n)].extension)

\* C9 witness: two providers with overlapping extensions read stacks, only
\* the second reads images and only the first writes.
C9_Witness ==
    /\ pc = "ready"
    /\ Len(plugins) = 2
    /\ plugins[1].extension = <<PatH>> /\ plugins[2].extension = <<PatT, PatH>>
    /\ Qualifying("read", "stack") = {1, 2}
    /\ Qualifying("read", "image") = {2}
    /\ Qualifying("write", "stack") = {1}
    /\ Len(tables.filter_list["read"]["stack"]) = 4

(***************************************************************************)
(* Loading: load and GetFileStructure are called on a registry and a data  *)
(* object that either holds nothing yet or the result of an earlier load.  *)
(***************************************************************************)
Rejecting == Plugin(<<"P">>, <<PatH>>, <<"stack">>, <<>>, {})

Accepting == Plugin(<<"Q">>, <<PatH>>, <<"stack">>, <<>>, {"f1"})

LoadRegistries == {<<>>, <<Rejecting>>, <<Rejecting, Accepting>>}

LoadFiles == [name : {<<"a", ".", "h">>, <<"a", ".", "x">>}, format : {"f1"}]

RowCounts == {1, 2}

ColCounts == {1, 2}

SliceCounts == {1, 2}

Shapes == {<<r, c>> : r \in RowCounts, c \in ColCounts}

\* what a file may hold: readable files with any cubes and coordinates,
\* and unreadable ones, of which only the number of sub-selections counts
Contents ==
    [shapes : SeqsUpTo(Shapes, MaxSel) \ {<<>>}, slices : SliceCounts,
     instr : {"flat", "flat_all", "per_slice"}, readable : {TRUE}]
    \cup [shapes : {[k \in 1..n |-> <<1, 1>>] : n \in 1..MaxSel}, slices : {1},
          instr : {"flat"}, readable : {FALSE}]

NoSelection == [given |-> FALSE, list |-> <<>>]

Selection(list) == [given |-> TRUE, list |-> list]

\* the selections a caller may pass for a file with these contents
SelectionsFor(content) ==
    IF Len(content.shapes) = 1
    THEN {NoSelection, Selection(<<1>>), Selection(<<>>)}
    ELSE {Selection([k \in 1..Len(content.shapes) |-> k])}

OldStackObject ==
    [ProviderRead([shapes |-> <<<<1, 1>>>>, slices |-> 1, instr |-> "flat",
                   readable |-> TRUE], NoStackObject, 0)
        EXCEPT !.absdata_interpolated = [shape |-> <<1, 1, 1>>, slices |-> <<>>]]

InitLoad ==
    /\ candidates = <<>>
    /\ plugins \in LoadRegistries
    /\ tables = NoTables
    /\ pc = "ready"
    /\ args = NoArgs
    /\ stack_object \in {NoStackObject, OldStackObject}
    /\ ret = None
    /\ trace = <<>>

Load ==
    /\ pc = "ready"
    /\ \E file \in LoadFiles, plugin \in 0..Len(plugins), content \in Contents :
         \E selection \in SelectionsFor(content) :
            LET r == load(plugins, file, content, stack_object, plugin, selection)
            IN  /\ args' = [op |-> "load", file |-> file, content |-> content,
                            stack_object |-> stack_object, plugin |-> plugin,
                            selection |-> selection]
                /\ stack_object' = r.stack
                /\ ret' = r.ret
                /\ trace' = r.log
    /\ pc' = "returned"
    /\ UNCHANGED <<candidates, plugins, tables>>

CallGetFileStructure ==
    /\ pc = "ready"
    /\ \E file \in LoadFiles, plugin \in 0..Len(plugins), single \in BOOLEAN :
         LET r == GetFileStructure(plugins, file, single, plugin)
         IN  /\ args' = [op |-> "GetFileStructure", file |-> file,
                         stack_object |-> stack_object, plugin |-> plugin,
                         single |-> single]
             /\ ret' = r.ret
             /\ trace' = r.log
    /\ pc' = "returned"
    /\ UNCHANGED <<candidates, plugins, tables, stack_object>>

NextLoad == Load \/ CallGetFileStructure

SpecLoad == InitLoad /\ [][NextLoad]_vars

\* the call was given no plugin and no registered provider both lists the
\* file's extension and confirms the file
NoProvider == args.plugin = 0 /\ Confirming(args.file) = {}

\* C5: with no provider supplied and none found, load and GetFileStructure
\* return None without raising, call no provider's read or
\* GetFileStructure and no resampler, and leave the data object as it was.
C5_NoProviderIsNullResult ==
    (pc = "returned" /\ args.op \in {"load", "GetFileStructure"} /\ NoProvider)
        => /\ ret = None
           /\ \A k \in 1..Len(trace) : trace[k].call = "identify"
           /\ stack_object.absdata = args.stack_object.absdata
           /\ stack_object.x_dist = args.stack_object.x_dist
           /\ stack_object.y_dist = args.stack_object.y_dist
           /\ stack_object.absdata_interpolated
                 = args.stack_object.absdata_interpolated

\* C5 witness: load of two sub-selections into an already loaded object,
\* no plugin given, the only listing provider rejects the file.
C5_Witness ==
    /\ pc = "returned" /\ args.op = "load" /\ NoProvider
    /\ Len(plugins) = 1 /\ Len(trace) = 1
    /\ Len(args.selection.list) = 2
    /\ args.stack_object = OldStackObject
    /\ ret = None

\* the call had a provider and every read of the selection completed
ReadsCompleted ==
    /\ pc = "returned" /\ args.op = "load"
    /\ ~NoProvider
    /\ args.content.readable
    /\ (args.selection.given => Len(args.selection.list) >= 1)

\* rows of the merged cube above the block of the k-th sub-selection
RECURSIVE RowsBefore(_)
RowsBefore(k) ==
    IF k <= 1 THEN 0 ELSE args.content.shapes[k - 1][1] + RowsBefore(k - 1)

\* C6: stitching more than one sub-selection never fails on differing
\* column counts; the merged cube has the summed rows, the widest column
\* count and the slices of the parts, and its k-th block of rows holds the
\* k-th cube in its first columns and 0 in all further columns.
C6_StitchPadsWithZeros ==
    (ReadsCompleted /\ Len(args.selection.list) > 1)
        => /\ ret # Raised("ValueError:vstack")
           /\ Len(stack_object.absdata) = TotalRows(args.content)
           /\ \A r \in 1..Len(stack_object.absdata) :
                 Len(stack_object.absdata[r]) = WidestCols(args.content)
           /\ \A k \in 1..Len(args.content.shapes) :
                 \A r \in 1..args.content.shapes[k][1] :
                    \A c \in 1..WidestCols(args.content) :
                       stack_object.absdata[RowsBefore(k) + r][c]
                          = IF c <= args.content.shapes[k][2]
                            THEN [e \in 1..args.content.slices |-> Sample(k, r, c, e)]
                            ELSE [e \in 1..args.content.slices |-> 0]

\* C6 witness: three cubes were stitched, the second wider than the first
\* and the third, and load returned normally.
C6_Witness ==
    /\ ReadsCompleted /\ Len(args.selection.list) = 3
    /\ args.content.shapes[1][2] < args.content.shapes[2][2]
    /\ args.content.shapes[3][2] < args.content.shapes[2][2]
    /\ ret = None
    /\ Shape(stack_object.absdata)[2] = args.content.shapes[2][2]

\* C7: when load has a provider and the reads complete, the resampler is
\* called exactly once, after every read and the stitching, with the
\* populated absdata and the instrument coordinate arrays, and its result
\* is stored in absdata_interpolated.
C7_ResampledOnceAndStored ==
    ReadsCompleted =>
        /\ Cardinality({k \in 1..Len(trace) :
                           trace[k].call = "interpolate_absdata_flat"}) = 1
        /\ trace[Len(trace)].call = "interpolate_absdata_flat"
        /\ trace[Len(trace)].absdata = stack_object.absdata
        /\ trace[Len(trace)].x_dist = stack_object.x_dist_instr
        /\ trace[Len(trace)].y_dist = stack_object.y_dist_instr
        /\ ret = None
        /\ stack_object.absdata_interpolated.shape = Shape(stack_object.absdata)
        /\ Len(stack_object.absdata_interpolated.slices) = args.content.slices

(***************************************************************************)
(* Resampling: the two resamplers are called on a cube and two coordinate  *)
(* arrays.                                                                 *)
(***************************************************************************)
\* coordinate arrays a caller may pass along an axis of n points: one
\* coordinate per pixel, one per point of the axis, or one per point of
\* the axis and slice
CoordChoices(shape, n, E) ==
    { Arr1([k \in 1..(shape[1] * shape[2]) |-> k]),
      Arr1([k \in 1..n |-> k]),
      Arr2([r \in 1..n |-> [i \in 1..E |-> r + 4 * i]]) }

InitResample ==
    /\ candidates = <<>>
    /\ plugins = <<>>
    /\ tables = NoTables
    /\ pc = "ready"
    /\ \E shape \in Shapes, E \in SliceCounts :
         \E x \in CoordChoices(shape, shape[1], E),
            y \in CoordChoices(shape, shape[2], E) :
            args = [op |-> "none",
                    absdata |-> RegionCube([shapes |-> <<shape>>, slices |-> E], 0),
                    x_dist |-> x, y_dist |-> y]
    /\ stack_object = NoStackObject
    /\ ret = None
    /\ trace = <<>>

ResampleFlat ==
    /\ pc = "ready"
    /\ LET r == interpolate_absdata_flat(args.absdata, args.x_dist, args.y_dist, TRUE)
       IN  ret' = IF r.exc = "" THEN Returned(r.out) ELSE Raised(r.exc)
    /\ args' = [args EXCEPT !.op = "interpolate_absdata_flat"]
    /\ pc' = "returned"
    /\ UNCHANGED <<candidates, plugins, tables, stack_object, trace>>

Resample ==
    /\ pc = "ready"
    /\ LET r == interpolate_absdata(args.absdata, args.x_dist, args.y_dist)
       IN  ret' = IF r.exc = "" THEN Returned(r.out) ELSE Raised(r.exc)
    /\ args' = [args EXCEPT !.op = "interpolate_absdata"]
    /\ pc' = "returned"
    /\ UNCHANGED <<candidates, plugins, tables, stack_object, trace>>

NextResample == ResampleFlat \/ Resample

SpecResample == InitResample /\ [][NextResample]_vars

\* the extent of slice i along an axis: of the slice's own coordinates when
\* the array is 2-dimensional, of the shared coordinates otherwise
OwnExtent(a, i) ==
    IF a.ndim = 2 THEN {a.data[r][i] : r \in 1..Len(a.data)} ELSE Range(a.data)

\* C8: with a 2-dimensional coordinate array the resampler (also the one
\* load uses) completes and returns a cube of the input's shape, each slice
\* resampled with the cubic method onto a grid spanning the minimum to the
\* maximum of that slice's own coordinates.
C8_PerSliceCubicResampling ==
    (/\ pc = "returned"
     /\ args.op \in {"interpolate_absdata_flat", "interpolate_absdata"}
     /\ (args.x_dist.ndim = 2 \/ args.y_dist.ndim = 2))
        => /\ ret.kind = "cube"
           /\ ret.out.shape = Shape(args.absdata)
           /\ \A i \in 1..Shape(args.absdata)[3] :
                 /\ ret.out.slices[i].method = "cubic"
                 /\ ret.out.slices[i].xi.x.lo = SetMin(OwnExtent(args.x_dist, i))
                 /\ ret.out.slices[i].xi.x.hi = SetMax(OwnExtent(args.x_dist, i))
                 /\ ret.out.slices[i].xi.y.lo = SetMin(OwnExtent(args.y_dist, i))
                 /\ ret.out.slices[i].xi.y.hi = SetMax(OwnExtent(args.y_dist, i))

====
